---- MODULE Spec2Model ----
(***************************************************************************)
(* Model of the Openverse media explorer backend:                          *)
(*   - OpenverseAPI (services/openverseService.ts): cached OAuth token,    *)
(*     lodash-throttled upstream requests, one retry after 401/403;        *)
(*   - searchMedia and the search-history handlers                         *)
(*     (controllers/searchController.ts);                                  *)
(*   - register (controllers/authController.ts) on the users table.        *)
(* Time is Date.now() in milliseconds.  One action is one macrotask of the *)
(* Node.js event loop together with the microtasks it triggers.            *)
(***************************************************************************)
EXTENDS Integers, Sequences, FiniteSets, TLC

\* ------------------------------------------------------------------ bounds
\* HTTP requests to /search handled in one run.
NHandlers == 2
\* Clock ticks per throttle interval, and the number of ticks of a run.
TicksPerWait == 2
MaxTicks == 3
\* Token lifetimes (expires_in) offered by the token endpoint: from
\* MaxTtlExtra seconds below the safety margin to MaxTtlExtra seconds above.
MaxTtlExtra == 1
\* makeRequest invocations of one run.
MaxCalls == 2

\* Rows of search_histories before a run of history requests, the history
\* requests of a run, and the page numbers and sizes they ask for.
MaxRows == 2
NHistReqs == 2
MaxPage == 2
\* Register requests and login requests of one run.
NRegs == 2
NLogins == 1
\* Length of the short passwords.
PwLen == 2
\* Requests passing an auth middleware in one run, and the primary keys of
\* the users they may refer to.
NMwReqs == 1
MaxUsers == 2

\* ------------------------------------------------------- program constants
\* throttle(..., 1000, ...): one request per second.
ThrottleWait == 1000
\* tokenExpiresAt = Date.now() + expires_in * 1000 - 300000.
SafetyMargin == 300000
\* expiresIn: '7d', in milliseconds.
TokenLifetime == 604800000
\* bcrypt uses at most this many bytes of a password.
BcryptMaxBytes == 72

TickMs == ThrottleWait \div TicksPerWait
MaxNow == MaxTicks * TickMs
TtlChoices ==
  {(SafetyMargin \div 1000) + k : k \in (0 - MaxTtlExtra)..MaxTtlExtra}

Null == 0
NoArgs == [call |-> <<0, "none">>, attempt |-> 0, token |-> Null]
Undefined == 0 - 1
Pending == 0
\* An axios error without a response (timeout, connection failure).
NoResponse == 1
Statuses == {200, 401, 403, 500, NoResponse}
Handlers == 1..NHandlers
Kinds == {"image", "audio"}
MediaTypes == {"image", "audio", "all"}
Calls == Handlers \X Kinds
Anon == 0
Users == {1, 2}

Min(a, b) == IF a < b THEN a ELSE b
Max(a, b) == IF a < b THEN b ELSE a

VARIABLES
  now,             \* Date.now()
  accessToken,     \* OpenverseAPI.accessToken (Null or a token)
  tokenExpiresAt,  \* OpenverseAPI.tokenExpiresAt
  nextToken,       \* the token the token endpoint issues next
  grant,           \* the last token response received, and when
  throttle,        \* closure state of lodash's throttle around axios.request
  reqs,            \* upstream requests initiated so far, in order
  thrLog,          \* calls of throttledRequest so far, in order
  call,            \* the makeRequest invocations, by handler and kind
  exchanges,       \* token exchanges started so far
  handler,         \* the searchMedia invocations
  upstream,        \* what the upstream answers to a successful search
  history,         \* table search_histories
  nextId,          \* next primary key
  users,           \* table users
  reg,             \* the register invocations
  hreq,            \* the history requests
  login,           \* the login invocations
  mw               \* the requests passing the auth middlewares

clientVars == <<now, accessToken, tokenExpiresAt, nextToken, grant, throttle, reqs,
                thrLog, call, exchanges, handler, upstream>>
dbVars == <<history, nextId, users, reg, hreq, login, mw>>
vars == <<clientVars, dbVars>>

\* ---------------------------------------------------------- lodash throttle
\* throttle(func, wait, {leading, trailing}) is
\* debounce(func, wait, {leading, maxWait: wait, trailing}).

ShouldInvoke(t, time) ==
  \/ t.lastCallTime = Undefined
  \/ time - t.lastCallTime >= ThrottleWait
  \/ time - t.lastCallTime < 0
  \/ time - t.lastInvokeTime >= ThrottleWait

RemainingWait(t, time) ==
  Min(ThrottleWait - (time - t.lastCallTime),
      ThrottleWait - (time - t.lastInvokeTime))

\* invokeFunc: func.apply(thisArg, lastArgs) initiates upstream request n.
InvokeFunc(t, time, n) ==
  [t EXCEPT !.lastArgs = NoArgs, !.lastInvokeTime = time, !.result = n]

LeadingEdge(t, time, n) ==
  InvokeFunc([t EXCEPT !.lastInvokeTime = time, !.timerId = time + ThrottleWait],
             time, n)

\* Mutant of Debounced: a call that finds one already waiting for the trailing
\* edge does not replace it (first pending call wins).
Debounced_KeepsFirst(t, time, args, n) ==
  LET isInvoking == ShouldInvoke(t, time)
      t1 == [t EXCEPT !.lastArgs = IF t.lastArgs # NoArgs /\ ~isInvoking
                                     THEN t.lastArgs ELSE args,
                      !.lastCallTime = time]
  IN  IF isInvoking /\ t1.timerId = Undefined
        THEN [t |-> LeadingEdge(t1, time, n), invoked |-> TRUE, ret |-> n]
      ELSE IF isInvoking
        THEN [t |-> InvokeFunc([t1 EXCEPT !.timerId = time + ThrottleWait], time, n),
              invoked |-> TRUE, ret |-> n]
      ELSE [t |-> IF t1.timerId = Undefined
                    THEN [t1 EXCEPT !.timerId = time + ThrottleWait]
                    ELSE t1,
            invoked |-> FALSE, ret |-> t1.result]

\* The throttled function called with args at time, n the next request's
\* number: the new closure state, whether func was invoked, and the promise
\* (request number) returned to the caller.
Debounced(t, time, args, n) ==
  LET isInvoking == ShouldInvoke(t, time)
      t1 == [t EXCEPT !.lastArgs = args, !.lastCallTime = time]
  IN  IF isInvoking /\ t1.timerId = Undefined
        THEN [t |-> LeadingEdge(t1, time, n), invoked |-> TRUE, ret |-> n]
      ELSE IF isInvoking
        THEN [t |-> InvokeFunc([t1 EXCEPT !.timerId = time + ThrottleWait], time, n),
              invoked |-> TRUE, ret |-> n]
      ELSE [t |-> IF t1.timerId = Undefined
                    THEN [t1 EXCEPT !.timerId = time + ThrottleWait]
                    ELSE t1,
            invoked |-> FALSE, ret |-> t1.result]

\* ------------------------------------------------------------ OpenverseAPI
\* A makeRequest invocation: where it stands (pc, attempt: 1 in the try block,
\* 2 in the catch block's retry; awaiting: the promise awaited), how it ended
\* (outcome, status, wrapped: rethrown as `Openverse API error (status)`;
\* from: the request whose response it returned), and its record: st1, st2 the
\* statuses its two awaits yielded, inval the times it cleared the token,
\* nexch the token exchanges it posted, ctok and clive the cached token and
\* whether Date.now() < tokenExpiresAt when it first entered getAccessToken.
NoCall ==
  [pc |-> "none", attempt |-> 1, awaiting |-> 0, outcome |-> "none",
   status |-> 0, wrapped |-> FALSE, from |-> 0, st1 |-> 0, st2 |-> 0,
   inval |-> 0, nexch |-> 0, ctok |-> Null, clive |-> FALSE]

\* Mutants of the cache test of getAccessToken: the comparison inverted, and
\* the expiry not looked at.
TokenValid_Inverted == accessToken # Null /\ now > tokenExpiresAt
TokenValid_IgnoresExpiry == accessToken # Null

\* getAccessToken: `this.accessToken && Date.now() < this.tokenExpiresAt`.
TokenValid == accessToken # Null /\ now < tokenExpiresAt

\* Mutant of AfterAwait: the first attempt is retried after any error
\* response, not only after 401/403.
AfterAwait_RetriesAnyError(cr, st, p) ==
  LET seen == IF cr.attempt = 1 THEN [cr EXCEPT !.st1 = st, !.awaiting = 0]
                                ELSE [cr EXCEPT !.st2 = st, !.awaiting = 0]
  IN  IF st = 200
        THEN [seen EXCEPT !.pc = "done", !.outcome = "data", !.from = p]
      ELSE IF cr.attempt = 1 /\ st # NoResponse
        THEN [seen EXCEPT !.pc = "token", !.attempt = 2,
                          !.inval = @ + 1, !.nexch = @ + 1]
      ELSE [seen EXCEPT !.pc = "done", !.outcome = "error", !.status = st,
                        !.wrapped = (cr.attempt = 1 /\ st # NoResponse),
                        !.from = p]

\* Mutant of AfterAwait: the catch block's retry is itself retried on 401/403.
AfterAwait_RetriesAgain(cr, st, p) ==
  LET seen == IF cr.attempt = 1 THEN [cr EXCEPT !.st1 = st, !.awaiting = 0]
                                ELSE [cr EXCEPT !.st2 = st, !.awaiting = 0]
  IN  IF st = 200
        THEN [seen EXCEPT !.pc = "done", !.outcome = "data", !.from = p]
      ELSE IF st \in {401, 403}
        THEN [seen EXCEPT !.pc = "token", !.attempt = 2,
                          !.inval = @ + 1, !.nexch = @ + 1]
      ELSE [seen EXCEPT !.pc = "done", !.outcome = "error", !.status = st,
                        !.wrapped = (cr.attempt = 1 /\ st # NoResponse),
                        !.from = p]

\* makeRequest resumes from `await this.throttledRequest(...)` with the settled
\* promise p (status st): the try block's return, the catch block's retry
\* (clear the token, getAccessToken finds none cached and posts a token
\* exchange), or a throw (a first attempt's error response, which carries a
\* detail, is rethrown as `Openverse API error (status): detail`).
AfterAwait(cr, st, p) ==
  LET seen == IF cr.attempt = 1 THEN [cr EXCEPT !.st1 = st, !.awaiting = 0]
                                ELSE [cr EXCEPT !.st2 = st, !.awaiting = 0]
  IN  IF st = 200
        THEN [seen EXCEPT !.pc = "done", !.outcome = "data", !.from = p]
      ELSE IF cr.attempt = 1 /\ st \in {401, 403}
        THEN [seen EXCEPT !.pc = "token", !.attempt = 2,
                          !.inval = @ + 1, !.nexch = @ + 1]
      ELSE [seen EXCEPT !.pc = "done", !.outcome = "error", !.status = st,
                        !.wrapped = (cr.attempt = 1 /\ st # NoResponse),
                        !.from = p]

\* createAuthenticatedConfig has returned token tk: makeRequest calls
\* throttledRequest(authConfig) and awaits what it returns.
Submit(s, c, tk) ==
  LET cr   == s.call[c]
      args == [call |-> c, attempt |-> cr.attempt, token |-> tk]
      d    == Debounced(s.throttle, now, args, Len(s.reqs) + 1)
      rq   == IF d.invoked
                THEN Append(s.reqs, [call |-> c, attempt |-> cr.attempt,
                                     token |-> tk, time |-> now,
                                     status |-> Pending])
                ELSE s.reqs
      st   == rq[d.ret].status
      cr2  == IF st = Pending
                THEN [cr EXCEPT !.pc = "await", !.awaiting = d.ret]
                ELSE AfterAwait(cr, st, d.ret)
  IN  [throttle |-> d.t,
       reqs     |-> rq,
       thrLog   |-> Append(s.thrLog, [call |-> c, attempt |-> cr.attempt,
                                      token |-> tk, nreq |-> Len(s.reqs),
                                      ret |-> d.ret, invoked |-> d.invoked]),
       call     |-> [s.call EXCEPT ![c] = cr2]]

\* The client state the operators above thread through one macrotask.
Client == [throttle |-> throttle, reqs |-> reqs, thrLog |-> thrLog, call |-> call]

\* Invalidations and token exchanges a macrotask's resumed calls performed.
NewInval(callF) == \E c \in Calls : callF[c].inval > call[c].inval
NewExch(callF) ==
  Cardinality({c \in Calls : callF[c].nexch > call[c].nexch})

\* ------------------------------------------------------------- searchMedia
CallsOf(h, mt) ==
  IF mt = "image" THEN <<<<h, "image">>>>
  ELSE IF mt = "audio" THEN <<<<h, "audio">>>>
  ELSE <<<<h, "image">>, <<h, "audio">>>>

Range(q) == {q[i] : i \in 1..Len(q)}

\* The data a finished call returned: the upstream's answer to the request
\* whose promise the call awaited.
DataOf(rq, cr) == upstream[rq[cr.from].call[2]]

\* case 'all': the merged result of Promise.all([searchImages, searchAudio]).
MergeAll(imageResults, audioResults) ==
  [result_count |-> imageResults.result_count + audioResults.result_count,
   page_count   |-> Max(imageResults.page_count, audioResults.page_count),
   results      |-> imageResults.results \o audioResults.results]

NoBody == [result_count |-> 0, page_count |-> 0, results |-> <<>>]

\* searchMedia resumes when its upstream calls settle: the catch block (500),
\* or the results in hand (the switch is left).
Progress(hr, h, rq, callF) ==
  LET cs == CallsOf(h, hr.mediaType)
      results == IF Len(cs) = 1
                   THEN DataOf(rq, callF[cs[1]])
                   ELSE MergeAll(DataOf(rq, callF[cs[1]]), DataOf(rq, callF[cs[2]]))
  IN  IF hr.pc # "searching" THEN hr
      ELSE IF \E c \in Range(cs) : callF[c].outcome = "error"
        THEN [hr EXCEPT !.pc = "done", !.status = 500]
      ELSE IF \A c \in Range(cs) : callF[c].outcome = "data"
        THEN [hr EXCEPT !.pc = "found", !.body = results]
      ELSE hr

\* ----------------------------------------------------------------- actions
\* Answers of the upstream to an image search and to an audio search.
CatalogA ==
  [image |-> [result_count |-> 5, page_count |-> 2, results |-> <<"i1", "i2">>],
   audio |-> [result_count |-> 3, page_count |-> 1, results |-> <<"a1">>]]
CatalogB ==
  [image |-> [result_count |-> 1, page_count |-> 1, results |-> <<"i3">>],
   audio |-> [result_count |-> 4, page_count |-> 3, results |-> <<"a2", "a3">>]]
Catalogs == {CatalogA, CatalogB}

NoHandler ==
  [pc |-> "idle", mediaType |-> "all", user |-> Anon, status |-> 0, body |-> NoBody]

InitClient ==
  /\ now = 0
  /\ accessToken = Null
  /\ tokenExpiresAt = 0
  /\ nextToken = 1
  /\ grant = [access_token |-> Null, expires_in |-> 0, at |-> 0]
  /\ throttle = [lastArgs |-> NoArgs, lastCallTime |-> Undefined,
                 lastInvokeTime |-> 0, timerId |-> Undefined, result |-> Null]
  /\ reqs = <<>>
  /\ thrLog = <<>>
  /\ call = [c \in Calls |-> NoCall]
  /\ exchanges = 0
  /\ handler = [h \in Handlers |-> NoHandler]

InitDb ==
  /\ history = {}
  /\ nextId = 1
  /\ users = {}
  /\ reg = <<>>
  /\ hreq = <<>>
  /\ login = <<>>
  /\ mw = <<>>

Init ==
  /\ InitClient
  /\ InitDb
  /\ upstream \in Catalogs

\* The macrotask's effect on the client, the handlers resumed with it.
Commit(s, hs) ==
  /\ throttle' = s.throttle
  /\ reqs' = s.reqs
  /\ thrLog' = s.thrLog
  /\ call' = s.call
  /\ exchanges' = exchanges + NewExch(s.call)
  /\ handler' = [h \in Handlers |-> Progress(hs[h], h, s.reqs, s.call)]

\* searchMedia up to its first await that leaves the macrotask: validation,
\* then one or two makeRequest calls, each through getAccessToken (the cached
\* token, or a token exchange posted) and, with a token, throttledRequest.
SearchMedia(h, mt) ==
  /\ handler[h].pc = "idle"
  /\ \A g \in Handlers : g < h => handler[g].pc # "idle"
  /\ Cardinality({c \in Calls : call[c].pc # "none"}) + Len(CallsOf(h, mt)) <= MaxCalls
  /\ LET cs == CallsOf(h, mt)
         entry == [NoCall EXCEPT !.ctok = accessToken,
                                 !.clive = (now < tokenExpiresAt)]
         fresh == IF TokenValid
                    THEN entry
                    ELSE [entry EXCEPT !.pc = "token", !.nexch = 1]
         s0 == [Client EXCEPT !.call = [c \in Calls |->
                   IF c \in Range(cs) THEN fresh ELSE call[c]]]
         s1 == Submit(s0, cs[1], accessToken)
         s2 == IF Len(cs) = 1 THEN s1 ELSE Submit(s1, cs[2], accessToken)
         hs == [handler EXCEPT ![h] = [@ EXCEPT !.pc = "searching",
                                                !.mediaType = mt]]
     IN  IF TokenValid
           THEN /\ Commit(s2, hs)
                /\ accessToken' = IF NewInval(s2.call) THEN Null ELSE accessToken
           ELSE /\ Commit(s0, hs)
                /\ UNCHANGED accessToken
  /\ UNCHANGED <<now, tokenExpiresAt, nextToken, grant, upstream, dbVars>>

\* validationResult(req) is not empty: 400.
SearchInvalid(h) ==
  /\ handler[h].pc = "idle"
  /\ \A g \in Handlers : g < h => handler[g].pc # "idle"
  /\ handler' = [handler EXCEPT ![h] = [@ EXCEPT !.pc = "done", !.status = 400]]
  /\ UNCHANGED <<now, accessToken, tokenExpiresAt, nextToken, grant, throttle, reqs,
                 thrLog, call, exchanges, upstream, dbVars>>

\* Mutant of ExchangeOk: the expiry is cached without the safety margin.
ExchangeOk_NoMargin(c, ttl) ==
  /\ call[c].pc = "token"
  /\ LET tk == nextToken
         s1 == Submit(Client, c, tk)
     IN  /\ Commit(s1, handler)
         /\ accessToken' = IF NewInval(s1.call) THEN Null ELSE tk
  /\ tokenExpiresAt' = now + (ttl * 1000)
  /\ nextToken' = nextToken + 1
  /\ grant' = [access_token |-> nextToken, expires_in |-> ttl, at |-> now]
  /\ UNCHANGED <<now, upstream, dbVars>>

\* The token exchange of call c succeeds with expires_in = ttl: getAccessToken
\* caches the token and its expiry and returns it, and makeRequest goes on to
\* throttledRequest.
ExchangeOk(c, ttl) ==
  /\ call[c].pc = "token"
  /\ LET tk == nextToken
         s1 == Submit(Client, c, tk)
     IN  /\ Commit(s1, handler)
         /\ accessToken' = IF NewInval(s1.call) THEN Null ELSE tk
  /\ tokenExpiresAt' = now + (ttl * 1000) - SafetyMargin
  /\ nextToken' = nextToken + 1
  /\ grant' = [access_token |-> nextToken, expires_in |-> ttl, at |-> now]
  /\ UNCHANGED <<now, upstream, dbVars>>

\* The token exchange of call c fails: getAccessToken throws an Error without
\* a response, which makeRequest lets through (from the try block by
\* `throw error`, from the catch block as it is).
ExchangeFail(c) ==
  /\ call[c].pc = "token"
  /\ LET s1 == [Client EXCEPT !.call[c] =
                   [@ EXCEPT !.pc = "done", !.outcome = "error",
                             !.status = NoResponse]]
     IN  Commit(s1, handler)
  /\ UNCHANGED <<now, accessToken, tokenExpiresAt, nextToken, grant, upstream, dbVars>>

\* The upstream answers request r with status st: the promise settles and
\* every makeRequest awaiting it resumes.
Respond(r, st) ==
  /\ r \in 1..Len(reqs)
  /\ reqs[r].status = Pending
  /\ LET rq == [reqs EXCEPT ![r].status = st]
         s1 == [Client EXCEPT
                  !.reqs = rq,
                  !.call = [c \in Calls |->
                     IF call[c].pc = "await" /\ call[c].awaiting = r
                       THEN AfterAwait(call[c], st, r)
                       ELSE call[c]]]
     IN  /\ Commit(s1, handler)
         /\ accessToken' = IF NewInval(s1.call) THEN Null ELSE accessToken
  /\ UNCHANGED <<now, tokenExpiresAt, nextToken, grant, upstream, dbVars>>

\* lodash's timerExpired: the trailing edge invokes func with the last args
\* received since the last invocation, if any; else the timer is set again.
TimerExpired ==
  /\ throttle.timerId # Undefined
  /\ now >= throttle.timerId
  /\ IF ShouldInvoke(throttle, now)
       THEN IF throttle.lastArgs # NoArgs
              THEN /\ throttle' = InvokeFunc([throttle EXCEPT !.timerId = Undefined],
                                             now, Len(reqs) + 1)
                   /\ reqs' = Append(reqs, [call |-> throttle.lastArgs.call,
                                            attempt |-> throttle.lastArgs.attempt,
                                            token |-> throttle.lastArgs.token,
                                            time |-> now, status |-> Pending])
              ELSE /\ throttle' = [throttle EXCEPT !.timerId = Undefined,
                                                   !.lastArgs = NoArgs]
                   /\ UNCHANGED reqs
       ELSE /\ throttle' = [throttle EXCEPT
                               !.timerId = now + RemainingWait(throttle, now)]
            /\ UNCHANGED reqs
  /\ UNCHANGED <<now, accessToken, tokenExpiresAt, nextToken, grant, thrLog, call,
                 exchanges, handler, upstream, dbVars>>

\* Time passes, up to the next timer that is due.
Tick ==
  /\ now < MaxNow
  /\ throttle.timerId = Undefined \/ now < throttle.timerId
  /\ now' = IF throttle.timerId # Undefined
              THEN Min(now + TickMs, throttle.timerId)
              ELSE now + TickMs
  /\ UNCHANGED <<accessToken, tokenExpiresAt, nextToken, grant, throttle, reqs, thrLog,
                 call, exchanges, handler, upstream, dbVars>>

\* Mutants of FinishSearch: the history row is written whether or not req.user
\* is set, and the row records the number of results on the page instead of
\* result_count.
FinishSearch_AlwaysRecords(h, u) ==
  /\ handler[h].pc = "found"
  /\ history' = history \cup
       {[id |-> nextId, userId |-> u,
         mediaType |-> handler[h].mediaType,
         resultCount |-> handler[h].body.result_count,
         createdAt |-> now]}
  /\ nextId' = nextId + 1
  /\ handler' = [handler EXCEPT ![h] =
                   [@ EXCEPT !.pc = "done", !.status = 200, !.user = u]]
  /\ UNCHANGED <<now, accessToken, tokenExpiresAt, nextToken, grant, throttle, reqs,
                 thrLog, call, exchanges, upstream, users, reg, hreq, login, mw>>

FinishSearch_CountsPage(h, u) ==
  /\ handler[h].pc = "found"
  /\ IF u # Anon
       THEN /\ history' = history \cup
                 {[id |-> nextId, userId |-> u,
                   mediaType |-> handler[h].mediaType,
                   resultCount |-> Len(handler[h].body.results),
                   createdAt |-> now]}
            /\ nextId' = nextId + 1
       ELSE UNCHANGED <<history, nextId>>
  /\ handler' = [handler EXCEPT ![h] =
                   [@ EXCEPT !.pc = "done", !.status = 200, !.user = u]]
  /\ UNCHANGED <<now, accessToken, tokenExpiresAt, nextToken, grant, throttle, reqs,
                 thrLog, call, exchanges, upstream, users, reg, hreq, login, mw>>

\* searchMedia after the switch, for a request whose req.user is u (read here
\* for the first time): SearchHistory.create({userId: req.user.id, ...,
\* resultCount}) if it is set, then res.json(results).
FinishSearch(h, u) ==
  /\ handler[h].pc = "found"
  /\ IF u # Anon
       THEN /\ history' = history \cup
                 {[id |-> nextId, userId |-> u,
                   mediaType |-> handler[h].mediaType,
                   resultCount |-> handler[h].body.result_count,
                   createdAt |-> now]}
            /\ nextId' = nextId + 1
       ELSE UNCHANGED <<history, nextId>>
  /\ handler' = [handler EXCEPT ![h] =
                   [@ EXCEPT !.pc = "done", !.status = 200, !.user = u]]
  /\ UNCHANGED <<now, accessToken, tokenExpiresAt, nextToken, grant, throttle, reqs,
                 thrLog, call, exchanges, upstream, users, reg, hreq, login, mw>>

Next ==
  \/ \E h \in Handlers, mt \in MediaTypes : SearchMedia(h, mt)
  \/ \E h \in Handlers : SearchInvalid(h)
  \/ \E c \in Calls, ttl \in TtlChoices : ExchangeOk(c, ttl)
  \/ \E c \in Calls : ExchangeFail(c)
  \/ \E r \in 1..Len(reqs), st \in Statuses : Respond(r, st)
  \/ TimerExpired
  \/ Tick
  \/ \E h \in Handlers, u \in {Anon} \cup Users : FinishSearch(h, u)

Spec == Init /\ [][Next]_vars

\* ------------------------------------------------- search history handlers
HReqs == 1..NHistReqs
RowIds == 1..MaxRows
NoHReq ==
  [pc |-> "idle", op |-> "none", user |-> Anon, id |-> 0, status |-> 0,
   rows |-> <<>>, total |-> 0, target |-> 0]

\* The tables search_histories can hold: at most one row per primary key.
Tables ==
  {t \in SUBSET [id : RowIds, userId : Users, mediaType : {"all"},
                 resultCount : {0}, createdAt : 0..1] :
     \A a \in t, b \in t : a.id = b.id => a = b}

InitHistory ==
  /\ InitClient
  /\ upstream = CatalogA
  /\ history \in Tables
  /\ nextId = MaxRows + 1
  /\ users = {}
  /\ reg = <<>>
  /\ hreq = [q \in HReqs |-> NoHReq]
  /\ login = <<>>
  /\ mw = <<>>

\* Mutant of FindOwned: the row is looked up by its id alone.
FindOwned_AnyOwner(id, u) == {r \in history : r.id = id}

\* SearchHistory.findOne({where: {id, userId: req.user.id}}).
FindOwned(id, u) == {r \in history : r.id = id /\ r.userId = u}

\* where: {userId: req.user.id}.
RowsOf(u) == {r \in history : r.userId = u}

\* order: [['createdAt', 'DESC']]: the orders the database may return rows in.
NewestFirst(S) ==
  {f \in [1..Cardinality(S) -> S] :
     /\ \A i \in DOMAIN f, j \in DOMAIN f : i # j => f[i] # f[j]
     /\ \A i \in DOMAIN f, j \in DOMAIN f : i < j => f[i].createdAt >= f[j].createdAt}

\* limit: pageSize, offset: (page - 1) * pageSize.
PageOf(f, page, pageSize) ==
  SubSeq(f, (page - 1) * pageSize + 1, Min(page * pageSize, Len(f)))

Answer(q, u, op, st) ==
  [hreq[q] EXCEPT !.pc = "done", !.op = op, !.user = u, !.status = st]

GetSearchHistory(q, u, page, pageSize) ==
  /\ hreq[q].pc = "idle"
  /\ IF u = Anon
       THEN hreq' = [hreq EXCEPT ![q] = Answer(q, u, "get", 401)]
       ELSE \E f \in NewestFirst(RowsOf(u)) :
              hreq' = [hreq EXCEPT ![q] =
                         [Answer(q, u, "get", 200) EXCEPT
                            !.rows = PageOf(f, page, pageSize),
                            !.total = Cardinality(RowsOf(u))]]
  /\ UNCHANGED <<clientVars, history, nextId, users, reg, login, mw>>

\* deleteSearchHistoryItem up to `await searchItem.destroy()`.
DeleteSearchHistoryItem(q, u, id) ==
  /\ hreq[q].pc = "idle"
  /\ hreq' = [hreq EXCEPT ![q] =
       IF u = Anon THEN Answer(q, u, "delete", 401)
       ELSE IF FindOwned(id, u) = {}
         THEN [Answer(q, u, "delete", 404) EXCEPT !.id = id]
       ELSE [hreq[q] EXCEPT !.pc = "destroy", !.op = "delete", !.user = u,
                            !.id = id, !.target = id]]
  /\ UNCHANGED <<clientVars, history, nextId, users, reg, login, mw>>

\* searchItem.destroy(): DELETE ... WHERE id = searchItem.id, then the answer.
DestroyItem(q) ==
  /\ hreq[q].pc = "destroy"
  /\ history' = {r \in history : r.id # hreq[q].target}
  /\ hreq' = [hreq EXCEPT ![q] = [@ EXCEPT !.pc = "done", !.status = 200]]
  /\ UNCHANGED <<clientVars, nextId, users, reg, login, mw>>

ClearSearchHistory(q, u) ==
  /\ hreq[q].pc = "idle"
  /\ IF u = Anon
       THEN /\ hreq' = [hreq EXCEPT ![q] = Answer(q, u, "clear", 401)]
            /\ UNCHANGED history
       ELSE /\ hreq' = [hreq EXCEPT ![q] = Answer(q, u, "clear", 200)]
            /\ history' = history \ RowsOf(u)
  /\ UNCHANGED <<clientVars, nextId, users, reg, login, mw>>

NextHistory ==
  \/ \E q \in HReqs, u \in {Anon} \cup Users, page \in 1..MaxPage,
         pageSize \in 1..MaxPage : GetSearchHistory(q, u, page, pageSize)
  \/ \E q \in HReqs, u \in {Anon} \cup Users, id \in 1..(MaxRows + 1) :
       DeleteSearchHistoryItem(q, u, id)
  \/ \E q \in HReqs : DestroyItem(q)
  \/ \E q \in HReqs, u \in {Anon} \cup Users : ClearSearchHistory(q, u)

SpecHistory == InitHistory /\ [][NextHistory]_vars

\* ------------------------------------------------------ register and login
Regs == 1..NRegs
Logins == 1..NLogins
Usernames == {"ann", "bob"}
Emails == {"ann@x.org", "bob@x.org"}
Salts == {"s1", "s2"}

\* A password of n characters ending in last.
Pw(n, last) == [i \in 1..n |-> IF i = n THEN last ELSE "p"]
\* The passwords of request bodies: short ones, and ones one character longer
\* than what bcrypt reads.
Passwords ==
  {Pw(n, last) : n \in {PwLen, BcryptMaxBytes + 1}, last \in {"a", "b"}}

NoReg ==
  [pc |-> "idle", username |-> "", email |-> "", password |-> <<>>,
   status |-> 0, wrote |-> 0, dup |-> FALSE]

\* No JWT.
NoToken == [id |-> 0, exp |-> 0, sig |-> "none"]

\* A login invocation: the request body, the row findOne returned (uid, hash),
\* and the answer.
NoLogin ==
  [pc |-> "idle", email |-> "", password |-> <<>>, uid |-> 0, hash |-> <<>>,
   status |-> 0, token |-> NoToken]

\* bcrypt.hash(password, salt): the key schedule reads the first 72 bytes of
\* the password and ignores the rest.
Hash(password, salt) ==
  <<"bcrypt", salt, SubSeq(password, 1, Min(Len(password), BcryptMaxBytes))>>

\* bcrypt.compare(candidate, hash): candidate hashed with the salt of hash.
Compare(candidate, hash) == Hash(candidate, hash[2]) = hash

\* generateToken: jwt.sign({id}, JWT_SECRET, {expiresIn: '7d'}).
GenerateToken(userId) ==
  [id |-> userId, exp |-> now + TokenLifetime, sig |-> "secret"]

InitAuth ==
  /\ InitClient
  /\ upstream = CatalogA
  /\ history = {}
  /\ nextId = 1
  /\ users = {}
  /\ reg = [r \in Regs |-> NoReg]
  /\ hreq = <<>>
  /\ login = [l \in Logins |-> NoLogin]
  /\ mw = <<>>

\* The users an email or a username is taken by: the where clause of
\* register's findOne, and the unique indexes of users.username, users.email.
Taken(username, email) ==
  {x \in users : x.email = email \/ x.username = username}

\* register up to `await User.create(...)`: validation (400), then findOne by
\* email or username (400 'User already exists').
Register(r, username, email, password, valid) ==
  /\ reg[r].pc = "idle"
  /\ \A g \in Regs : g < r => reg[g].pc # "idle"
  /\ reg' = [reg EXCEPT ![r] =
       IF ~valid THEN [@ EXCEPT !.pc = "done", !.status = 400]
       ELSE IF Taken(username, email) # {}
         THEN [@ EXCEPT !.pc = "done", !.status = 400, !.dup = TRUE,
                        !.username = username, !.email = email]
       ELSE [@ EXCEPT !.pc = "create", !.username = username,
                      !.email = email, !.password = password]]
  /\ UNCHANGED <<clientVars, history, nextId, users, hreq, login, mw>>

\* User.create: the beforeCreate hook hashes the password, the INSERT fails on
\* the unique indexes (the catch block answers 500) or writes the row.
RegisterCreate(r, salt) ==
  /\ reg[r].pc = "create"
  /\ IF Taken(reg[r].username, reg[r].email) # {}
       THEN /\ reg' = [reg EXCEPT ![r] =
                        [@ EXCEPT !.pc = "done", !.status = 500, !.dup = TRUE]]
            /\ UNCHANGED <<users, nextId>>
       ELSE /\ users' = users \cup
                 {[id |-> nextId, username |-> reg[r].username,
                   email |-> reg[r].email,
                   password |-> Hash(reg[r].password, salt),
                   isActive |-> TRUE, lastLogin |-> Undefined]}
            /\ nextId' = nextId + 1
            /\ reg' = [reg EXCEPT ![r] = [@ EXCEPT !.pc = "update", !.wrote = nextId]]
  /\ UNCHANGED <<clientVars, history, hreq, login, mw>>

\* generateToken, user.update({lastLogin: new Date()}), 201.
RegisterUpdate(r) ==
  /\ reg[r].pc = "update"
  /\ users' = {IF x.id = reg[r].wrote THEN [x EXCEPT !.lastLogin = now] ELSE x :
                 x \in users}
  /\ reg' = [reg EXCEPT ![r] = [@ EXCEPT !.pc = "done", !.status = 201]]
  /\ UNCHANGED <<clientVars, history, nextId, hreq, login, mw>>

\* login up to `await user.comparePassword(password)`: validation (400), then
\* findOne by email (401 'Invalid credentials' without a row, 403 'Account is
\* disabled' for a row that is not active).
Login(l, email, password, valid) ==
  /\ login[l].pc = "idle"
  /\ \A g \in Logins : g < l => login[g].pc # "idle"
  /\ LET found == {x \in users : x.email = email}
         user  == CHOOSE x \in found : TRUE
     IN  login' = [login EXCEPT ![l] =
           IF ~valid THEN [@ EXCEPT !.pc = "done", !.status = 400]
           ELSE IF found = {}
             THEN [@ EXCEPT !.pc = "done", !.status = 401, !.email = email,
                            !.password = password]
           ELSE IF ~user.isActive
             THEN [@ EXCEPT !.pc = "done", !.status = 403, !.email = email,
                            !.password = password, !.uid = user.id]
           ELSE [@ EXCEPT !.pc = "compare", !.email = email,
                          !.password = password, !.uid = user.id,
                          !.hash = user.password]]
  /\ UNCHANGED <<clientVars, history, nextId, users, reg, hreq, mw>>

\* bcrypt.compare has settled: 401 'Invalid credentials', or generateToken and
\* on to `await user.update({lastLogin: new Date()})`.
LoginCompare(l) ==
  /\ login[l].pc = "compare"
  /\ login' = [login EXCEPT ![l] =
       IF Compare(login[l].password, login[l].hash)
         THEN [@ EXCEPT !.pc = "update", !.token = GenerateToken(login[l].uid)]
         ELSE [@ EXCEPT !.pc = "done", !.status = 401]]
  /\ UNCHANGED <<clientVars, history, nextId, users, reg, hreq, mw>>

\* user.update({lastLogin}) (the beforeUpdate hook leaves the password, which
\* has not changed, as it is), then res.json({token, user}).
LoginUpdate(l) ==
  /\ login[l].pc = "update"
  /\ users' = {IF x.id = login[l].uid THEN [x EXCEPT !.lastLogin = now] ELSE x :
                 x \in users}
  /\ login' = [login EXCEPT ![l] = [@ EXCEPT !.pc = "done", !.status = 200]]
  /\ UNCHANGED <<clientVars, history, nextId, reg, hreq, mw>>

NextAuth ==
  \/ \E r \in Regs, username \in Usernames, email \in Emails,
         password \in Passwords, valid \in BOOLEAN :
       Register(r, username, email, password, valid)
  \/ \E r \in Regs, salt \in Salts : RegisterCreate(r, salt)
  \/ \E r \in Regs : RegisterUpdate(r)
  \/ \E l \in Logins, email \in Emails, password \in Passwords,
         valid \in BOOLEAN : Login(l, email, password, valid)
  \/ \E l \in Logins : LoginCompare(l)
  \/ \E l \in Logins : LoginUpdate(l)
  \/ Tick

SpecAuth == InitAuth /\ [][NextAuth]_vars

\* --------------------------------------------------------- auth middlewares
MwReqs == 1..NMwReqs
UserIds == 1..MaxUsers

\* The users tables a request may find: every user present and active,
\* present and deactivated, or absent.
SessionUser(i, active) ==
  [id |-> i, username |-> <<"user", i>>, email |-> <<"user", i, "@x.org">>,
   password |-> Hash(Pw(PwLen, "a"), "s1"), isActive |-> active,
   lastLogin |-> Undefined]
SessionTables ==
  {t \in SUBSET {SessionUser(i, a) : i \in UserIds, a \in BOOLEAN} :
     \A x \in t, y \in t : x.id = y.id => x = y}

\* The tokens a client may present: issued by generateToken seven days ago,
\* one tick less than seven days ago, or now (sig "secret"), or carrying a
\* signature that JWT_SECRET does not verify (sig "other").
SessionTokens ==
  {[id |-> i, exp |-> iat + TokenLifetime, sig |-> "secret"] :
     i \in UserIds, iat \in {0 - TokenLifetime, TickMs - TokenLifetime, 0}}
  \cup {[id |-> i, exp |-> TokenLifetime, sig |-> "other"] : i \in UserIds}

\* req.headers.authorization: absent, of another scheme, `Bearer ` without a
\* token, or `Bearer <token>`.
Headers ==
  {[scheme |-> "none", token |-> NoToken],
   [scheme |-> "Basic", token |-> NoToken],
   [scheme |-> "Bearer", token |-> NoToken]}
  \cup {[scheme |-> "Bearer", token |-> t] : t \in SessionTokens}

\* A request in a middleware: kind (required: authenticate, optional:
\* optionalAuth), its header, the time jwt.verify ran, whether findByPk threw,
\* the status answered (0: none), the calls of next(), req.user and req.token.
NoMw ==
  [pc |-> "idle", kind |-> "none", header |-> [scheme |-> "none", token |-> NoToken],
   at |-> 0, failed |-> FALSE, status |-> 0, next |-> 0, user |-> Anon,
   token |-> NoToken]

InitSession ==
  /\ InitClient
  /\ upstream = CatalogA
  /\ history = {}
  /\ nextId = MaxUsers + 1
  /\ users \in SessionTables
  /\ reg = <<>>
  /\ hreq = <<>>
  /\ login = <<>>
  /\ mw = [m \in MwReqs |-> NoMw]

\* jwt.verify(token, JWT_SECRET) returns the payload: the signature verifies
\* and the token has not expired; else it throws a JsonWebTokenError.
Verifies(token, time) == token.sig = "secret" /\ time < token.exp

\* `!authHeader || !authHeader.startsWith('Bearer ')`, then `!token`.
HasBearerToken(header) == header.scheme = "Bearer" /\ header.token # NoToken

\* User.findByPk(decoded.id).
FindByPk(id) == {x \in users : x.id = id}

\* authenticate up to `await User.findByPk(decoded.id)`: 401 without a bearer
\* token, 401 from the catch block when jwt.verify throws.
Authenticate(m, header) ==
  /\ mw[m].pc = "idle"
  /\ \A g \in MwReqs : g < m => mw[g].pc # "idle"
  /\ mw' = [mw EXCEPT ![m] =
       IF HasBearerToken(header) /\ Verifies(header.token, now)
         THEN [@ EXCEPT !.pc = "find", !.kind = "required", !.header = header,
                        !.at = now]
         ELSE [@ EXCEPT !.pc = "done", !.kind = "required", !.header = header,
                        !.at = now, !.status = 401]]
  /\ UNCHANGED <<clientVars, history, nextId, users, reg, hreq, login>>

\* Mutant of AuthenticateFound: isActive is not looked at.
AuthenticateFound_SkipsActive(m) ==
  /\ mw[m].pc = "find"
  /\ mw[m].kind = "required"
  /\ LET found == FindByPk(mw[m].header.token.id)
     IN  mw' = [mw EXCEPT ![m] =
           IF found = {} THEN [@ EXCEPT !.pc = "done", !.status = 401]
           ELSE [@ EXCEPT !.pc = "done", !.user = mw[m].header.token.id,
                          !.token = mw[m].header.token, !.next = 1]]
  /\ UNCHANGED <<clientVars, history, nextId, users, reg, hreq, login>>

\* authenticate after findByPk: 401 'User not found', 403 'Account is
\* disabled', or req.user and req.token set and next().
AuthenticateFound(m) ==
  /\ mw[m].pc = "find"
  /\ mw[m].kind = "required"
  /\ LET found == FindByPk(mw[m].header.token.id)
         user  == CHOOSE x \in found : TRUE
     IN  mw' = [mw EXCEPT ![m] =
           IF found = {} THEN [@ EXCEPT !.pc = "done", !.status = 401]
           ELSE IF ~user.isActive THEN [@ EXCEPT !.pc = "done", !.status = 403]
           ELSE [@ EXCEPT !.pc = "done", !.user = user.id,
                          !.token = mw[m].header.token, !.next = 1]]
  /\ UNCHANGED <<clientVars, history, nextId, users, reg, hreq, login>>

\* Mutant of OptionalAuth: a token that does not verify is answered 401, as
\* in authenticate.
OptionalAuth_Rejects(m, header) ==
  /\ mw[m].pc = "idle"
  /\ \A g \in MwReqs : g < m => mw[g].pc # "idle"
  /\ mw' = [mw EXCEPT ![m] =
       IF HasBearerToken(header) /\ Verifies(header.token, now)
         THEN [@ EXCEPT !.pc = "find", !.kind = "optional", !.header = header,
                        !.at = now]
       ELSE IF HasBearerToken(header)
         THEN [@ EXCEPT !.pc = "done", !.kind = "optional", !.header = header,
                        !.at = now, !.status = 401]
       ELSE [@ EXCEPT !.pc = "done", !.kind = "optional", !.header = header,
                      !.at = now, !.next = 1]]
  /\ UNCHANGED <<clientVars, history, nextId, users, reg, hreq, login>>

\* optionalAuth up to `await User.findByPk(decoded.id)`: next() without a
\* bearer token, next() from the catch block when jwt.verify throws.
OptionalAuth(m, header) ==
  /\ mw[m].pc = "idle"
  /\ \A g \in MwReqs : g < m => mw[g].pc # "idle"
  /\ mw' = [mw EXCEPT ![m] =
       IF HasBearerToken(header) /\ Verifies(header.token, now)
         THEN [@ EXCEPT !.pc = "find", !.kind = "optional", !.header = header,
                        !.at = now]
         ELSE [@ EXCEPT !.pc = "done", !.kind = "optional", !.header = header,
                        !.at = now, !.next = 1]]
  /\ UNCHANGED <<clientVars, history, nextId, users, reg, hreq, login>>

\* optionalAuth after findByPk: req.user and req.token set `if (user &&
\* user.isActive)`, then next().
OptionalFound(m) ==
  /\ mw[m].pc = "find"
  /\ mw[m].kind = "optional"
  /\ LET found == FindByPk(mw[m].header.token.id)
         user  == CHOOSE x \in found : TRUE
     IN  mw' = [mw EXCEPT ![m] =
           IF found # {} /\ user.isActive
             THEN [@ EXCEPT !.pc = "done", !.user = user.id,
                            !.token = mw[m].header.token, !.next = 1]
             ELSE [@ EXCEPT !.pc = "done", !.next = 1]]
  /\ UNCHANGED <<clientVars, history, nextId, users, reg, hreq, login>>

\* findByPk throws (the database fails): the catch block of authenticate
\* answers 500 'Authentication error', that of optionalAuth calls next().
FindFails(m) ==
  /\ mw[m].pc = "find"
  /\ mw' = [mw EXCEPT ![m] =
       IF mw[m].kind = "required"
         THEN [@ EXCEPT !.pc = "done", !.failed = TRUE, !.status = 500]
         ELSE [@ EXCEPT !.pc = "done", !.failed = TRUE, !.next = 1]]
  /\ UNCHANGED <<clientVars, history, nextId, users, reg, hreq, login>>

NextSession ==
  \/ \E m \in MwReqs, header \in Headers : Authenticate(m, header)
  \/ \E m \in MwReqs : AuthenticateFound(m)
  \/ \E m \in MwReqs, header \in Headers : OptionalAuth(m, header)
  \/ \E m \in MwReqs : OptionalFound(m)
  \/ \E m \in MwReqs : FindFails(m)
  \/ Tick

SpecSession == InitSession /\ [][NextSession]_vars

\* ------------------------------------------------------------------ claims
ReqsOf(c) == {r \in 1..Len(reqs) : reqs[r].call = c}
LogOf(c, a) ==
  {i \in 1..Len(thrLog) : thrLog[i].call = c /\ thrLog[i].attempt = a}
AuthRejected == {401, 403}
\* Call c's first throttledRequest call invoked axios.request itself, so the
\* promise c awaited first is the one of its own first upstream attempt.
OwnFirstAttempt(c) == \E i \in LogOf(c, 1) : thrLog[i].invoked
Started(c) == call[c].pc = "none" /\ call'[c].pc # "none"
NewLog == (Len(thrLog) + 1)..Len(thrLog')

\* C1: a makeRequest call whose first upstream attempt is answered 401 or 403
\* clears the token once and its retry reaches the upstream: once the call has
\* handed its retry to throttledRequest and ended, the retry has been sent,
\* with a token other than the rejected one, or is the call the throttle holds
\* for its trailing edge.
C1_RetryReachesUpstream ==
  \A c \in Calls :
    (/\ call[c].pc = "done"
     /\ OwnFirstAttempt(c)
     /\ call[c].st1 \in AuthRejected
     /\ LogOf(c, 2) # {})
    => /\ call[c].inval = 1
       /\ \/ \E r \in ReqsOf(c), q \in ReqsOf(c) :
               /\ reqs[q].attempt = 1
               /\ reqs[r].attempt = 2
               /\ reqs[r].token # reqs[q].token
               /\ Cardinality(ReqsOf(c)) = 2
          \/ (throttle.lastArgs.call = c /\ throttle.lastArgs.attempt = 2)

\* C2: a makeRequest call that is answered 401/403 on its first attempt and
\* again on its retry ends in an error carrying the retry's HTTP status, with
\* one invalidation and at most two attempts.
C2_SecondRejectionSurfaces ==
  \A c \in Calls :
    (call[c].st1 \in AuthRejected /\ call[c].st2 \in AuthRejected)
    => /\ call[c].pc = "done"
       /\ call[c].outcome = "error"
       /\ call[c].status = call[c].st2
       /\ call[c].inval = 1
       /\ Cardinality(LogOf(c, 1) \cup LogOf(c, 2)) <= 2
       /\ Cardinality(ReqsOf(c)) <= 2

C2_Witness ==
  \E c \in Calls : call[c].st1 = 401 /\ call[c].st2 = 401 /\ call[c].pc = "done"

\* C3: a getAccessToken call made while a token is cached and now < expiresAt
\* posts no token exchange and returns the cached token, and leaves the cached
\* token and its expiry as they are (the only exchange and clearing of the
\* same macrotask are those of a 401/403 retry).
C3_CachedTokenServed ==
  [][\A c \in Calls :
       (Started(c) /\ accessToken # Null /\ now < tokenExpiresAt)
       => /\ call'[c].nexch = call'[c].inval
          /\ \E i \in NewLog : /\ thrLog'[i].call = c
                                /\ thrLog'[i].attempt = 1
                                /\ thrLog'[i].token = accessToken
          /\ tokenExpiresAt' = tokenExpiresAt
          /\ \/ accessToken' = accessToken
             \/ /\ accessToken' = Null
                /\ \E d \in Calls : call'[d].inval > call[d].inval]_vars

C3_Witness ==
  \E c \in Calls : /\ call[c].ctok # Null
                    /\ call[c].clive
                    /\ \E i \in LogOf(c, 1) : thrLog[i].token = call[c].ctok

\* C4: a getAccessToken call made once now >= expiresAt posts exactly one
\* token exchange and returns nothing before it completes; the completed
\* exchange's token is cached with its expiry and is the token returned,
\* never the expired one.
C4_ExpiredTokenRefetched ==
  [][/\ \A c \in Calls :
          (Started(c) /\ accessToken # Null /\ now >= tokenExpiresAt)
          => /\ call'[c].pc = "token"
             /\ call'[c].nexch = 1
             /\ \A i \in NewLog : thrLog'[i].call # c
     /\ \A c \in Calls :
          (call[c].pc = "token" /\ call[c].attempt = 1 /\ call'[c].pc # "token"
           /\ Len(thrLog') > Len(thrLog))
          => /\ thrLog'[Len(thrLog')].call = c
             /\ thrLog'[Len(thrLog')].token = nextToken
             /\ thrLog'[Len(thrLog')].token # call[c].ctok
             /\ call'[c].nexch = 1 + call'[c].inval
             /\ \E ttl \in TtlChoices :
                  tokenExpiresAt' = now + (ttl * 1000) - SafetyMargin
             /\ \/ accessToken' = nextToken
                \/ /\ accessToken' = Null
                   /\ call'[c].inval > call[c].inval]_vars

C4_Witness ==
  \E c \in Calls : /\ call[c].ctok # Null
                    /\ ~call[c].clive
                    /\ \E i \in LogOf(c, 1) : thrLog[i].token # call[c].ctok

\* C5: while no token is cached, concurrent getAccessToken calls are
\* coalesced: at most one token exchange is in flight.
C5_SingleFlight ==
  accessToken = Null => Cardinality({c \in Calls : call[c].pc = "token"}) <= 1

\* C6: any two consecutive upstream calls are initiated at least one throttle
\* interval apart.
C6_OnePerInterval ==
  \A i \in 1..(Len(reqs) - 1) : reqs[i + 1].time - reqs[i].time >= ThrottleWait

\* Entry i of thrLog was still held for the trailing edge when the next call
\* of throttledRequest replaced it.
Superseded(i) ==
  /\ i < Len(thrLog)
  /\ ~thrLog[i].invoked
  /\ thrLog[i + 1].nreq = thrLog[i].nreq
SentEntry(i) ==
  \E r \in 1..Len(reqs) : /\ reqs[r].call = thrLog[i].call
                           /\ reqs[r].attempt = thrLog[i].attempt
                           /\ reqs[r].token = thrLog[i].token
\* No call was received and none initiated within the last interval.
BurstStart ==
  /\ throttle.lastCallTime = Undefined \/ now - throttle.lastCallTime >= ThrottleWait
  /\ throttle.lastCallTime = Undefined \/ now - throttle.lastInvokeTime >= ThrottleWait

\* C7: the first call of a burst is initiated at once; when the throttle's
\* timer fires with calls received during the window, exactly one call is
\* initiated, the most recently received one; a call replaced by a later one
\* while it waited is never sent to the upstream.
C7_LatestPendingWins ==
  [][/\ (BurstStart /\ Len(thrLog') > Len(thrLog))
          => /\ thrLog'[Len(thrLog) + 1].invoked
             /\ Len(reqs') > Len(reqs)
             /\ reqs'[Len(reqs) + 1].call = thrLog'[Len(thrLog) + 1].call
             /\ reqs'[Len(reqs) + 1].time = now
     /\ (/\ thrLog' = thrLog
         /\ throttle.timerId # Undefined
         /\ throttle'.timerId = Undefined
         /\ thrLog # <<>>
         /\ ~thrLog[Len(thrLog)].invoked
         /\ thrLog[Len(thrLog)].nreq = Len(reqs))
          => /\ Len(reqs') = Len(reqs) + 1
             /\ reqs'[Len(reqs')].call = thrLog[Len(thrLog)].call
             /\ reqs'[Len(reqs')].attempt = thrLog[Len(thrLog)].attempt
             /\ reqs'[Len(reqs')].token = thrLog[Len(thrLog)].token
             /\ reqs'[Len(reqs')].time = throttle.timerId
     /\ (thrLog' = thrLog) => Len(reqs') <= Len(reqs) + 1
     /\ \A i \in 1..Len(thrLog') : Superseded(i)' => ~SentEntry(i)']_vars

C7_Witness ==
  \E i \in 1..Len(thrLog), j \in 1..Len(thrLog) :
    /\ i < j
    /\ Superseded(i)
    /\ ~thrLog[j].invoked
    /\ SentEntry(j)

\* C8: a search of media type `all` answers result_count = image count +
\* audio count, page_count = the larger page count, and results = the image
\* search's results followed by the audio search's results.
C8_MergeOfBothSearches ==
  \A h \in Handlers :
    (/\ handler[h].mediaType = "all"
     /\ handler[h].pc \in {"found", "done"}
     /\ handler[h].status \in {0, 200})
    => handler[h].body = MergeAll(upstream["image"], upstream["audio"])

OthersRows(t, u) == {r \in t : r.userId # u}

\* C9: a history request made as user A answers with rows of A only and
\* leaves the rows of every other user as they are; a delete by A of the id of
\* a row owned by another user answers 404.
C9_HistoryPrivacy ==
  [][\A q \in HReqs :
       /\ \A i \in 1..Len(hreq'[q].rows) : hreq'[q].rows[i].userId = hreq'[q].user
       /\ hreq'[q] # hreq[q] => OthersRows(history', hreq'[q].user) = OthersRows(history, hreq'[q].user)
       /\ (/\ hreq[q].pc = "idle"
           /\ hreq'[q].op = "delete"
           /\ hreq'[q].user # Anon
           /\ \E r \in history : r.id = hreq'[q].id /\ r.userId # hreq'[q].user)
          => /\ hreq'[q].pc = "done"
             /\ hreq'[q].status = 404
             /\ history' = history]_vars

C9_Witness ==
  \E q \in HReqs, p \in HReqs :
    /\ hreq[q].pc = "done" /\ hreq[q].op = "delete" /\ hreq[q].status = 404
    /\ \E r \in history : r.id = hreq[q].id /\ r.userId # hreq[q].user
    /\ hreq[p].pc = "done" /\ hreq[p].op = "get" /\ hreq[p].user = hreq[q].user
    /\ Len(hreq[p].rows) > 0

\* C10: a register request whose email or username is in use by a stored user
\* answers 400 and writes no row, under every interleaving of register
\* requests; the users table never holds two rows with one email or username.
C10_DuplicateRejected ==
  /\ \A r \in Regs :
       (reg[r].pc = "done" /\ reg[r].dup)
       => reg[r].status = 400 /\ reg[r].wrote = 0
  /\ \A a \in users, b \in users :
       a # b => a.email # b.email /\ a.username # b.username

\* The password the user with primary key id registered with.
RegisteredWith(id) == reg[CHOOSE r \in Regs : reg[r].wrote = id].password

\* C11: a login for a registered, active user answers 200 with a token for
\* that user when the password is the one registered, and for any other
\* password answers 401 with no token and leaves the users table (lastLogin
\* included) as it is.
C11_PasswordRoundTrip ==
  [][\A l \in Logins :
       (login[l].pc # "done" /\ login'[l].pc = "done" /\ login'[l].uid # 0)
       => IF login'[l].password = RegisteredWith(login'[l].uid)
            THEN /\ login'[l].status = 200
                 /\ login'[l].token # NoToken
                 /\ login'[l].token.id = login'[l].uid
            ELSE /\ login'[l].status = 401
                 /\ login'[l].token = NoToken
                 /\ users' = users]_vars

\* Handler h leaves searchMedia's switch with results and answers.
Answers(h) == handler[h].pc = "found" /\ handler'[h].pc = "done"

\* C12: a searchMedia call without req.user whose search calls returned data
\* answers 200 with those results and leaves search_histories (and the next
\* primary key) as they are.
C12_AnonymousSearchUnrecorded ==
  [][\A h \in Handlers :
       (Answers(h) /\ handler'[h].user = Anon)
       => /\ handler'[h].status = 200
          /\ handler'[h].body = handler[h].body
          /\ \A c \in Range(CallsOf(h, handler[h].mediaType)) :
               call[c].outcome = "data"
          /\ history' = history
          /\ nextId' = nextId]_vars

C12_Witness ==
  \E h \in Handlers, g \in Handlers :
    /\ handler[h].pc = "done" /\ handler[h].status = 200
    /\ handler[h].user = Anon /\ handler[h].body.result_count > 0
    /\ handler[g].pc = "done" /\ handler[g].status = 200
    /\ handler[g].user # Anon
    /\ Cardinality(history) = 1

\* search_histories holds one row for each search answered with req.user set.
OneRowPerAnswer ==
  Cardinality(history) =
    Cardinality({h \in Handlers : /\ handler[h].pc = "done"
                                  /\ handler[h].status = 200
                                  /\ handler[h].user # Anon})

\* C13: a searchMedia call with req.user set writes exactly one row of
\* search_histories, owned by the caller, with the media type searched and
\* resultCount equal to the result_count answered, and only after its search
\* calls returned data; a search of which a call failed answers 500 and writes
\* no row; nothing else writes rows.
C13_AuthenticatedSearchRecorded ==
  [][/\ \A h \in Handlers :
          (Answers(h) /\ handler'[h].user # Anon)
          => /\ handler'[h].status = 200
             /\ \A c \in Range(CallsOf(h, handler[h].mediaType)) :
                  call[c].outcome = "data"
             /\ \E row \in history' :
                  /\ row \notin history
                  /\ history' = history \cup {row}
                  /\ row.userId = handler'[h].user
                  /\ row.mediaType = handler'[h].mediaType
                  /\ row.resultCount = handler'[h].body.result_count
     /\ \A h \in Handlers :
          (handler[h].pc = "searching" /\ handler'[h].pc = "done")
          => /\ handler'[h].status = 500
             /\ \E c \in Range(CallsOf(h, handler[h].mediaType)) :
                  call'[c].outcome = "error"
             /\ history' = history
     /\ history' # history
          => \E h \in Handlers : Answers(h) /\ handler'[h].user # Anon
     /\ OneRowPerAnswer']_vars

C13_Witness ==
  \E h \in Handlers, g \in Handlers :
    /\ handler[h].pc = "done" /\ handler[h].status = 200
    /\ handler[h].user # Anon
    /\ \E row \in history : /\ row.userId = handler[h].user
                            /\ row.resultCount = handler[h].body.result_count
                            /\ row.resultCount > 0
    /\ handler[g].pc = "done" /\ handler[g].status = 500
    /\ Cardinality(history) = 1

\* The user the bearer token of request m refers to exists and is active.
ActiveUser(m) ==
  \E x \in users : x.id = mw[m].header.token.id /\ x.isActive
\* Request m carries a bearer token that verified when the middleware ran.
ValidCredential(m) ==
  HasBearerToken(mw[m].header) /\ Verifies(mw[m].header.token, mw[m].at)
Required(m) == mw[m].kind = "required" /\ mw[m].pc = "done" /\ ~mw[m].failed
Optional(m) == mw[m].kind = "optional" /\ mw[m].pc = "done"

\* C14 as claimed: authenticate answers 401, without next() and without
\* req.user, when there is no valid bearer credential, when the token's user
\* does not exist and when the token's user is deactivated; it calls next()
\* only with an existing active user attached.
C14_RejectsWith401 ==
  \A m \in MwReqs :
    Required(m)
    => IF ValidCredential(m) /\ ActiveUser(m)
         THEN /\ mw[m].next = 1 /\ mw[m].status = 0
              /\ mw[m].user = mw[m].header.token.id
         ELSE /\ mw[m].next = 0 /\ mw[m].status = 401
              /\ mw[m].user = Anon

\* C14 amended: as claimed, but the answer for a deactivated user is 403.
C14_RejectsUnattached ==
  \A m \in MwReqs :
    /\ mw[m].pc # "done" => mw[m].next = 0 /\ mw[m].status = 0 /\ mw[m].user = Anon
    /\ Required(m)
       => IF ValidCredential(m) /\ ActiveUser(m)
            THEN /\ mw[m].next = 1 /\ mw[m].status = 0
                 /\ mw[m].user = mw[m].header.token.id
                 /\ mw[m].token = mw[m].header.token
            ELSE /\ mw[m].next = 0
                 /\ mw[m].user = Anon /\ mw[m].token = NoToken
                 /\ mw[m].status =
                      IF ValidCredential(m) /\ FindByPk(mw[m].header.token.id) # {}
                        THEN 403 ELSE 401

\* A request with a token that verifies, of a deactivated user, was rejected.
C14_Witness ==
  \E m \in MwReqs :
    /\ Required(m) /\ ValidCredential(m)
    /\ FindByPk(mw[m].header.token.id) # {} /\ ~ActiveUser(m)
    /\ mw[m].status = 403 /\ mw[m].next = 0

\* C15: optionalAuth never answers: it calls next() exactly once, and req.user
\* is set if and only if the bearer token verifies and refers to an existing,
\* active user (and findByPk did not throw); otherwise req.user stays unset.
C15_OptionalNeverRejects ==
  \A m \in MwReqs :
    /\ mw[m].kind = "optional" => mw[m].status = 0 /\ mw[m].next <= 1
    /\ Optional(m)
       => /\ mw[m].next = 1
          /\ IF ValidCredential(m) /\ ActiveUser(m) /\ ~mw[m].failed
               THEN mw[m].user = mw[m].header.token.id
               ELSE mw[m].user = Anon /\ mw[m].token = NoToken

\* A request with an expired token went on without req.user.
C15_Witness ==
  \E m \in MwReqs :
    /\ Optional(m) /\ HasBearerToken(mw[m].header)
    /\ mw[m].header.token.sig = "secret"
    /\ mw[m].at >= mw[m].header.token.exp
    /\ mw[m].at > 0
    /\ mw[m].user = Anon /\ mw[m].next = 1

\* The error responses other than 401/403.
OtherErrors == Statuses \ ({200, NoResponse} \cup AuthRejected)

\* Call c ended with `Openverse API error (status)` for the status it was
\* answered, with one throttledRequest call, no retry and no invalidation.
PropagatedOnce(c) ==
  /\ call[c].pc = "done"
  /\ call[c].outcome = "error"
  /\ call[c].status = call[c].st1
  /\ call[c].wrapped
  /\ call[c].inval = 0
  /\ call[c].nexch <= 1
  /\ call[c].st2 = 0
  /\ LogOf(c, 2) = {}
  /\ Cardinality(LogOf(c, 1)) = 1
  /\ \A r \in ReqsOf(c) : reqs[r].attempt = 1
  /\ Cardinality(ReqsOf(c)) <= 1
  /\ OwnFirstAttempt(c) => Cardinality(ReqsOf(c)) = 1

SafeUntil == grant.at + (grant.expires_in * 1000) - SafetyMargin

\* C17: the expiry cached with a token is the time of its exchange + ttl - 5
\* minutes; a getAccessToken call answered from the cache returns the token
\* of the last exchange at a time before that, and never a token whose ttl is
\* 5 minutes or less.
C17_ExpiryWithMargin ==
  [][/\ (accessToken # Null
           => accessToken = grant.access_token /\ tokenExpiresAt = SafeUntil)'
     /\ \A c \in Calls : \A i \in NewLog :
          (Started(c) /\ thrLog'[i].call = c)
          => /\ thrLog'[i].token = grant.access_token
             /\ thrLog'[i].token # Null
             /\ now < SafeUntil
             /\ grant.expires_in * 1000 > SafetyMargin
     /\ \A c \in Calls :
          (Started(c) /\ now >= SafeUntil)
          => call'[c].pc = "token" /\ \A i \in NewLog : thrLog'[i].call # c]_vars

\* A token with a ttl of 5 minutes or less was cached, and the next
\* getAccessToken call posted an exchange instead of returning it.
C17_Witness ==
  \E d \in Calls :
    /\ grant.expires_in * 1000 <= SafetyMargin
    /\ accessToken = grant.access_token
    /\ call[d].ctok = grant.access_token
    /\ call[d].ctok # Null
    /\ ~call[d].clive
    /\ call[d].pc = "token"

\* C18: what a makeRequest call returns (data or error) is the upstream's
\* response to a request this call submitted on the attempt it ended on, and
\* every promise throttledRequest hands back is the one of the request made
\* from the config it was called with.
C18_OwnResponse ==
  /\ \A c \in Calls :
       call[c].from # 0
       => /\ reqs[call[c].from].call = c
          /\ reqs[call[c].from].attempt = call[c].attempt
  /\ \A i \in 1..Len(thrLog) :
       thrLog[i].ret \in 1..Len(reqs)
       => /\ reqs[thrLog[i].ret].call = thrLog[i].call
          /\ reqs[thrLog[i].ret].attempt = thrLog[i].attempt
          /\ reqs[thrLog[i].ret].token = thrLog[i].token

\* The calls that cleared the token after a rejection of a request carrying
\* token tk.
InvalidatedBy(tk) ==
  {c \in Calls : /\ call[c].inval > 0
                 /\ \E i \in LogOf(c, 1) : reqs[thrLog[i].ret].token = tk}

\* C19: a call resumed by a 401/403 clears the cached token only if it is the
\* token the rejected request carried, a token cached since stays, and the
\* rejections of the requests carrying one token lead to at most one
\* invalidation (one extra token exchange).
C19_InvalidationScoped ==
  [][/\ \A c \in Calls :
          (/\ call[c].pc = "await"
           /\ call'[c].inval > call[c].inval
           /\ accessToken # Null
           /\ accessToken # reqs[call[c].awaiting].token)
          => accessToken' = accessToken
     /\ \A tk \in 1..nextToken : Cardinality(InvalidatedBy(tk)') <= 1]_vars

====
